---------------------------- MODULE Spec2Model ----------------------------
(***************************************************************************)
(* Seed phrases for Stellar: text normalisation, seed-phrase               *)
(* classification, binary-seed derivation and SLIP-0010 hardened key       *)
(* derivation (electrum_mnemonic.py, seed_phrase_to_stellar_keys.py,       *)
(* key_derivation.py).                                                     *)
(*                                                                         *)
(* Every function of the program is pure.  A behaviour of the model is     *)
(* one call: Init draws the call (the function and its arguments) from     *)
(* bounded sets, and the action of that function runs it to its return     *)
(* value or to the exception it raises.                                    *)
(*                                                                         *)
(* Representation.                                                         *)
(*  - A Python str is a sequence of Unicode code points (naturals).        *)
(*  - A Python int is unbounded; it is kept as a record [hi, lo] standing  *)
(*    for hi * 2^31 + lo with 0 <= lo < 2^31 and hi any integer (the       *)
(*    two's-complement reading Python's | uses), so that 2^31 and 2^32     *)
(*    are exact.                                                           *)
(*  - A result is a record [exc, val]: exc = "" and the value returned,    *)
(*    or the name of the exception raised.                                 *)
(*  - HMAC-SHA512 and PBKDF2 are ideal: their outputs are the terms        *)
(*    built from their inputs (distinct inputs, distinct outputs).         *)
(***************************************************************************)
EXTENDS Integers, Sequences, FiniteSets, TLC

VARIABLES call, pc, ret

vars == <<call, pc, ret>>

(***************************************************************************)
(* Results and exceptions                                                  *)
(***************************************************************************)
Ok(v) == [exc |-> "", val |-> v]

Raise(e) == [exc |-> e, val |-> <<>>]

(***************************************************************************)
(* Bounds of the model                                                     *)
(***************************************************************************)
\* longest text handed to normalize_text on its own
MaxLen == 4

(***************************************************************************)
(* Unicode data (UnicodeData 14.0) for the code points the model uses      *)
(***************************************************************************)
\* the code points texts are drawn from:
\*   32 SPACE, 5760 OGHAM SPACE MARK, 201 E WITH ACUTE, 168 DIAERESIS,
\*   20013 CJK IDEOGRAPH 4E2D, 65398 HALFWIDTH KATAKANA KA, 65313 FULLWIDTH A
Alphabet == {32, 5760, 201, 168, 20013, 65398, 65313}

\* str.isspace() / the separators of str.split()
UnicodeWhitespace ==
    {9, 10, 11, 12, 13, 28, 29, 30, 31, 32, 133, 160, 5760} \cup (8192..8202)
        \cup {8232, 8233, 8239, 8287, 12288}

\* string.whitespace == ' \t\n\r\x0b\x0c'
StringWhitespace == {32, 9, 10, 13, 11, 12}

\* the compatibility decomposition of one code point
Decomposition(c) ==
    CASE c = 201   -> <<69, 769>>      \* E WITH ACUTE -> E, COMBINING ACUTE
      [] c = 233   -> <<101, 769>>     \* e with acute -> e, COMBINING ACUTE
      [] c = 168   -> <<32, 776>>      \* DIAERESIS -> SPACE, COMBINING DIAERESIS
      [] c = 12288 -> <<32>>           \* IDEOGRAPHIC SPACE -> SPACE
      [] c = 160   -> <<32>>           \* NO-BREAK SPACE -> SPACE
      [] c = 65398 -> <<12459>>        \* HALFWIDTH KATAKANA KA -> KATAKANA KA
      [] c = 65313 -> <<65>>           \* FULLWIDTH A -> A
      [] c = 65345 -> <<97>>           \* FULLWIDTH a -> a
      [] OTHER     -> <<c>>

\* unicodedata.combining(c): the canonical combining class
combining(c) ==
    CASE c \in {769, 776} -> 230
      [] c = 803          -> 220
      [] OTHER            -> 0

\* str.lower() of one code point
ToLower(c) ==
    CASE c \in 65..90       -> c + 32
      [] c = 201            -> 233
      [] c \in 65313..65338 -> c + 32
      [] OTHER              -> c

\* the decompositions of s[lo..hi], in order
RECURSIVE DecomposeRange(_, _, _)
DecomposeRange(s, lo, hi) ==
    IF lo > hi THEN <<>>
    ELSE IF lo = hi THEN Decomposition(s[lo])
    ELSE LET mid == (lo + hi) \div 2
         IN DecomposeRange(s, lo, mid) \o DecomposeRange(s, mid + 1, hi)

Decompose(s) == DecomposeRange(s, 1, Len(s))

\* canonical ordering: adjacent combining marks are put in class order
RECURSIVE CanonicalOrder(_)
CanonicalOrder(s) ==
    LET bad == {i \in 1..(Len(s) - 1) :
                   /\ combining(s[i + 1]) > 0
                   /\ combining(s[i]) > combining(s[i + 1])}
    IN IF bad = {} THEN s
       ELSE LET i == CHOOSE j \in bad : \A k \in bad : j <= k
            IN CanonicalOrder([s EXCEPT ![i] = s[i + 1], ![i + 1] = s[i]])

\* unicodedata.normalize('NFKD', s)
NFKD(s) == CanonicalOrder(Decompose(s))

\* seed.lower()
lower(s) == [i \in 1..Len(s) |-> ToLower(s[i])]

(***************************************************************************)
(* electrum_mnemonic.py                                                    *)
(***************************************************************************)
CJK_INTERVALS ==
    << <<19968, 40959>>,     \* 0x4E00..0x9FFF   CJK Unified Ideographs
       <<13312, 19903>>,     \* 0x3400..0x4DBF   CJK Unified Ideographs Extension A
       <<131072, 173791>>,   \* 0x20000..0x2A6DF CJK Unified Ideographs Extension B
       <<173824, 177983>>,   \* 0x2A700..0x2B73F CJK Unified Ideographs Extension C
       <<177984, 178207>>,   \* 0x2B740..0x2B81F CJK Unified Ideographs Extension D
       <<63744, 64255>>,     \* 0xF900..0xFAFF   CJK Compatibility Ideographs
       <<194560, 195101>>,   \* 0x2F800..0x2FA1D CJK Compatibility Ideographs Supplement
       <<12688, 12703>>,     \* 0x3190..0x319F   Kanbun
       <<11904, 12031>>,     \* 0x2E80..0x2EFF   CJK Radicals Supplement
       <<12032, 12255>>,     \* 0x2F00..0x2FDF   CJK Radicals
       <<12736, 12783>>,     \* 0x31C0..0x31EF   CJK Strokes
       <<12272, 12287>>,     \* 0x2FF0..0x2FFF   Ideographic Description Characters
       <<917760, 917999>>,   \* 0xE0100..0xE01EF Variation Selectors Supplement
       <<12544, 12591>>,     \* 0x3100..0x312F   Bopomofo
       <<12704, 12735>>,     \* 0x31A0..0x31BF   Bopomofo Extended
       <<65280, 65519>>,     \* 0xFF00..0xFFEF   Halfwidth and Fullwidth Forms
       <<12352, 12447>>,     \* 0x3040..0x309F   Hiragana
       <<12448, 12543>>,     \* 0x30A0..0x30FF   Katakana
       <<12784, 12799>>,     \* 0x31F0..0x31FF   Katakana Phonetic Extensions
       <<110592, 110847>>,   \* 0x1B000..0x1B0FF Kana Supplement
       <<44032, 55215>>,     \* 0xAC00..0xD7AF   Hangul Syllables
       <<4352, 4607>>,       \* 0x1100..0x11FF   Hangul Jamo
       <<43360, 43391>>,     \* 0xA960..0xA97F   Hangul Jamo Extended A
       <<55216, 55295>>,     \* 0xD7B0..0xD7FF   Hangul Jamo Extended B
       <<12592, 12687>>,     \* 0x3130..0x318F   Hangul Compatibility Jamo
       <<42192, 42239>>,     \* 0xA4D0..0xA4FF   Lisu
       <<93952, 94111>>,     \* 0x16F00..0x16F9F Miao
       <<40960, 42127>>,     \* 0xA000..0xA48F   Yi Syllables
       <<42128, 42191>>      \* 0xA490..0xA4CF   Yi Radicals
    >>

is_CJK(n) ==
    \E k \in 1..Len(CJK_INTERVALS) :
        n >= CJK_INTERVALS[k][1] /\ n <= CJK_INTERVALS[k][2]

\* seed.split(): the maximal runs of non-whitespace, in order
split(s) ==
    LET IsWs(i) == s[i] \in UnicodeWhitespace
        starts == {i \in 1..Len(s) : ~IsWs(i) /\ (i = 1 \/ IsWs(i - 1))}
        \* the k-th start, and the end of the word that starts at i
        start(k) == CHOOSE i \in starts :
                        Cardinality({j \in starts : j < i}) = k - 1
        end(i) == CHOOSE e \in i..Len(s) :
                      /\ \A j \in i..e : ~IsWs(j)
                      /\ (e = Len(s) \/ IsWs(e + 1))
    IN [k \in 1..Cardinality(starts) |-> SubSeq(s, start(k), end(start(k)))]

\* sep.join(words[lo..hi])
RECURSIVE JoinRange(_, _, _, _)
JoinRange(sep, words, lo, hi) ==
    IF lo > hi THEN <<>>
    ELSE IF lo = hi THEN words[lo]
    ELSE LET mid == (lo + hi) \div 2
         IN JoinRange(sep, words, lo, mid) \o sep
                \o JoinRange(sep, words, mid + 1, hi)

\* sep.join(words)
join(sep, words) == JoinRange(sep, words, 1, Len(words))

\* seed[j] for a 0-based Python index j: a negative index counts from the
\* end, an index outside -len..len-1 raises IndexError
InRange(s, j) == j >= -Len(s) /\ j < Len(s)

At(s, j) == IF j >= 0 THEN s[j + 1] ELSE s[Len(s) + j + 1]

\* the filter of the last comprehension of normalize_text at 0-based i,
\* evaluated left to right with Python's short-circuit "and"
ReadsLeft(seed, i) == At(seed, i) \in StringWhitespace

ReadsRight(seed, i) ==
    ReadsLeft(seed, i) /\ InRange(seed, i - 1) /\ is_CJK(At(seed, i - 1))

Dropped(seed, i) ==
    ReadsRight(seed, i) /\ InRange(seed, i + 1) /\ is_CJK(At(seed, i + 1))

\* some lookup of the comprehension is out of range
IndexErrorAt(seed, i) ==
    \/ ReadsLeft(seed, i) /\ ~InRange(seed, i - 1)
    \/ ReadsRight(seed, i) /\ ~InRange(seed, i + 1)

\* the characters the comprehension keeps among the 0-based lo..hi
RECURSIVE KeepRange(_, _, _)
KeepRange(seed, lo, hi) ==
    IF lo > hi THEN <<>>
    ELSE IF lo = hi
         THEN IF Dropped(seed, lo) THEN <<>> ELSE <<At(seed, lo)>>
    ELSE LET mid == (lo + hi) \div 2
         IN KeepRange(seed, lo, mid) \o KeepRange(seed, mid + 1, hi)

RemoveCJKWhitespace(seed) ==
    IF \E i \in 0..(Len(seed) - 1) : IndexErrorAt(seed, i)
    THEN Raise("IndexError")
    ELSE Ok(KeepRange(seed, 0, Len(seed) - 1))

RemoveAccents(s) == SelectSeq(s, LAMBDA c : combining(c) = 0)

\* the whitespace runs collapsed to one space each, the ones at the two
\* ends kept
NormalizeWhitespace_KeepEdges(s) ==
    (IF s # <<>> /\ s[1] \in UnicodeWhitespace THEN <<32>> ELSE <<>>)
        \o join(<<32>>, split(s))
        \o (IF split(s) # <<>> /\ s[Len(s)] \in UnicodeWhitespace
            THEN <<32>> ELSE <<>>)

NormalizeWhitespace(s) == join(<<32>>, split(s))

\* normalize_text with the accents removed before the decomposition
normalize_text_AccentsFirst(seed) ==
    RemoveCJKWhitespace(NormalizeWhitespace(lower(NFKD(RemoveAccents(seed)))))

\* normalize_text with the CJK step before the whitespace is normalized
normalize_text_CJKFirst(seed) ==
    LET r == RemoveCJKWhitespace(RemoveAccents(lower(NFKD(seed))))
    IN IF r.exc # "" THEN r ELSE Ok(NormalizeWhitespace(r.val))

normalize_text(seed) ==
    RemoveCJKWhitespace(NormalizeWhitespace(RemoveAccents(lower(NFKD(seed)))))

\* the string that reaches the last comprehension of normalize_text
CJKStepInput(seed) == NormalizeWhitespace(RemoveAccents(lower(NFKD(seed))))

\* the neighbour lookups the last comprehension evaluates on seed: at the
\* 0-based position at it reads seed[index], index = at - 1 (whenever seed[at]
\* is in string.whitespace) or at + 1 (when seed[at - 1] was CJK as well)
NeighbourLookups(seed) ==
    {[at |-> i, index |-> i - 1] :
        i \in {j \in 0..(Len(seed) - 1) : ReadsLeft(seed, j)}}
    \cup
    {[at |-> i, index |-> i + 1] :
        i \in {j \in 0..(Len(seed) - 1) : ReadsRight(seed, j)}}

(***************************************************************************)
(* Python integers: [hi, lo] is hi * 2^31 + lo, 0 <= lo < 2^31             *)
(***************************************************************************)
\* 2^31 - 1, the largest lo
LimbMax == 2147483646 + 1

\* the integer n, for -2^31 <= n < 2^31
IntOf(n) ==
    IF n >= 0 THEN [hi |-> 0, lo |-> n]
    ELSE [hi |-> -1, lo |-> (n + LimbMax) + 1]

IntGe(x, y) == x.hi > y.hi \/ (x.hi = y.hi /\ x.lo >= y.lo)

IntLt(x, y) == ~IntGe(x, y)

\* -x
IntNeg(x) ==
    IF x.lo = 0 THEN [hi |-> -x.hi, lo |-> 0]
    ELSE [hi |-> -x.hi - 1, lo |-> (LimbMax - x.lo) + 1]

\* a | b on two's-complement integers of any sign
RECURSIVE BitOr(_, _)
BitOr(a, b) ==
    IF a = 0 THEN b
    ELSE IF b = 0 THEN a
    ELSE IF a = -1 \/ b = -1 THEN -1
    ELSE (IF a % 2 = 1 \/ b % 2 = 1 THEN 1 ELSE 0)
             + 2 * BitOr(a \div 2, b \div 2)

\* x | y
IntOr(x, y) == [hi |-> BitOr(x.hi, y.hi), lo |-> BitOr(x.lo, y.lo)]

\* 10 * x + d for x >= 0 and a digit d (2^31 = 10 * 214748364 + 8)
MulTenAdd(x, d) ==
    LET u == x.lo \div 214748364
        w == x.lo % 214748364
        rem == 10 * w + d - 8 * u
    IN IF rem < 0
       THEN [hi |-> 10 * x.hi + u - 1, lo |-> (rem + LimbMax) + 1]
       ELSE [hi |-> 10 * x.hi + u, lo |-> rem]

\* the decimal digits of a natural below 2^31
RECURSIVE DigitsNat(_)
DigitsNat(n) ==
    IF n < 10 THEN <<48 + n>>
    ELSE DigitsNat(n \div 10) \o <<48 + (n % 10)>>

\* the decimal digits of x >= 0 (x below 10 * 2^31)
Digits(x) ==
    IF x.hi = 0 THEN DigitsNat(x.lo)
    ELSE LET s == 8 * x.hi + (x.lo % 10)
             q == x.hi * 214748364 + (x.lo \div 10) + (s \div 10)
         IN DigitsNat(q) \o <<48 + (s % 10)>>

\* '%d' % x
PercentD(x) ==
    IF x.hi < 0 THEN <<45>> \o Digits(IntNeg(x)) ELSE Digits(x)

\* s.strip()
RECURSIVE lstrip(_)
lstrip(s) ==
    IF s # <<>> /\ Head(s) \in UnicodeWhitespace THEN lstrip(Tail(s)) ELSE s

RECURSIVE rstripWhitespace(_)
rstripWhitespace(s) ==
    IF s # <<>> /\ s[Len(s)] \in UnicodeWhitespace
    THEN rstripWhitespace(SubSeq(s, 1, Len(s) - 1)) ELSE s

strip(s) == rstripWhitespace(lstrip(s))

RECURSIVE ParseDigits(_, _)
ParseDigits(s, acc) ==
    IF s = <<>> THEN acc
    ELSE ParseDigits(Tail(s),
                     IF Head(s) = 95 THEN acc ELSE MulTenAdd(acc, Head(s) - 48))

\* the digits of an int literal: ASCII digits, single underscores between them
IsDigitString(s) ==
    /\ s # <<>>
    /\ \A k \in 1..Len(s) : s[k] \in (48..57) \cup {95}
    /\ s[1] # 95 /\ s[Len(s)] # 95
    /\ \A k \in 1..(Len(s) - 1) : ~(s[k] = 95 /\ s[k + 1] = 95)

\* int(e) for a str e: surrounding whitespace, an optional sign, digits
int(e) ==
    LET t == strip(e)
        signed == t # <<>> /\ t[1] \in {43, 45}
        body == IF signed THEN Tail(t) ELSE t
    IN IF ~IsDigitString(body) THEN Raise("ValueError")
       ELSE LET v == ParseDigits(body, IntOf(0))
            IN Ok(IF signed /\ t[1] = 45 THEN IntNeg(v) ELSE v)

(***************************************************************************)
(* Byte strings.  A bytes value is concrete ([k |-> "bytes", b |-> ...])   *)
(* or a term over the ideal HMAC-SHA512 / PBKDF2 outputs.                  *)
(***************************************************************************)
Bytes(bs) == [k |-> "bytes", b |-> bs]

Min(a, b) == IF a <= b THEN a ELSE b

Max(a, b) == IF a >= b THEN a ELSE b

RECURSIVE ByteLen(_)
ByteLen(v) ==
    CASE v.k = "bytes"        -> Len(v.b)
      [] v.k = "hmac_sha_512" -> 64
      [] v.k = "PBKDF2"       -> v.n
      [] v.k = "slice"        -> Max(0, Min(v.to, ByteLen(v.of)) - v.from)
      [] v.k = "concat"       -> ByteLen(v.left) + ByteLen(v.right)

\* v[from:to] with 0 <= from <= to
Slice(v, from, to) ==
    IF v.k = "bytes"
    THEN Bytes(SubSeq(v.b, from + 1, Min(to, Len(v.b))))
    ELSE [k |-> "slice", of |-> v, from |-> from, to |-> to]

\* a + b
Concat(a, b) ==
    IF a.k = "bytes" /\ b.k = "bytes" THEN Bytes(a.b \o b.b)
    ELSE [k |-> "concat", left |-> a, right |-> b]

(***************************************************************************)
(* key_derivation.py                                                       *)
(***************************************************************************)
\* "m/44'/148'/%d'": the text before and after %d
ACCOUNT_PATH_FORMAT == << <<109, 47, 52, 52, 39, 47, 49, 52, 56, 39, 47>>, <<39>> >>

\* 0x80000000
HARDENED == [hi |-> 1, lo |-> 0]

\* b'ed25519 seed'
CURVE == Bytes(<<101, 100, 50, 53, 53, 49, 57, 32, 115, 101, 101, 100>>)

hmac_sha_512(key_, data) == [k |-> "hmac_sha_512", key |-> key_, data |-> data]

\* v[:32]
key(v) == Slice(v, 0, 32)

\* v[32:]
chain_code(v) == Slice(v, 32, Max(32, ByteLen(v)))

\* struct.pack('>L', i): 4 bytes, most significant first; struct.error
\* unless 0 <= i < 2^32
ser32(i) ==
    IF i.hi \notin {0, 1} THEN Raise("struct.error")
    ELSE Ok(Bytes(<< i.hi * 128 + (i.lo \div 16777216),
                     (i.lo \div 65536) % 256,
                     (i.lo \div 256) % 256,
                     i.lo % 256 >>))

new_master_key(seed) ==
    LET h == hmac_sha_512(CURVE, seed)
    IN <<key(h), chain_code(h)>>

\* derive without the assertion on the index
derive_NoHardenedCheck(parent_key, parent_chain_code, i) ==
    IF ByteLen(parent_key) # 32 THEN Raise("AssertionError")
    ELSE IF ByteLen(parent_chain_code) # 32 THEN Raise("AssertionError")
    ELSE LET s == ser32(i)
         IN IF s.exc # "" THEN s
            ELSE LET data == Concat(Concat(Bytes(<<0>>), parent_key), s.val)
                     h == hmac_sha_512(parent_chain_code, data)
                 IN Ok(<<key(h), chain_code(h)>>)

derive(parent_key, parent_chain_code, i) ==
    IF ByteLen(parent_key) # 32 THEN Raise("AssertionError")
    ELSE IF ByteLen(parent_chain_code) # 32 THEN Raise("AssertionError")
    ELSE IF ~IntGe(i, HARDENED) THEN Raise("AssertionError")
    ELSE LET s == ser32(i)
         IN IF s.exc # "" THEN s
            ELSE LET data == Concat(Concat(Bytes(<<0>>), parent_key), s.val)
                     h == hmac_sha_512(parent_chain_code, data)
                 IN Ok(<<key(h), chain_code(h)>>)

\* s.split(sep) for a one-character sep: every piece, the empty ones too
RECURSIVE SplitOnFrom(_, _, _, _, _)
SplitOnFrom(s, sep, i, cur, acc) ==
    IF i > Len(s) THEN Append(acc, cur)
    ELSE IF s[i] = sep
         THEN SplitOnFrom(s, sep, i + 1, <<>>, Append(acc, cur))
         ELSE SplitOnFrom(s, sep, i + 1, Append(cur, s[i]), acc)

SplitOn(s, sep) == SplitOnFrom(s, sep, 1, <<>>, <<>>)

\* s.rstrip(chars) for a one-character chars
RECURSIVE rstrip(_, _)
rstrip(s, c) ==
    IF s # <<>> /\ s[Len(s)] = c THEN rstrip(SubSeq(s, 1, Len(s) - 1), c)
    ELSE s

\* list(element.rstrip("'") for element in path.split('/'))[1:]
PathElements(path) ==
    LET pieces == SplitOn(path, 47)
    IN Tail([j \in 1..Len(pieces) |-> rstrip(pieces[j], 39)])

\* the loop of derive_along_path over the elements left, from (key, chain_code)
RECURSIVE DeriveLoop(_, _)
DeriveLoop(ext, elements) ==
    IF elements = <<>> THEN Ok(ext)
    ELSE LET n == int(Head(elements))
         IN IF n.exc # "" THEN n
            ELSE LET child == derive(ext[1], ext[2], IntOr(n.val, HARDENED))
                 IN IF child.exc # "" THEN child
                    ELSE DeriveLoop(child.val, Tail(elements))

\* derive_along_path returning the chain code in place of the key
derive_along_path_ChainCode(path, seed) ==
    LET r == DeriveLoop(new_master_key(seed), PathElements(path))
    IN IF r.exc # "" THEN r ELSE Ok(r.val[2])

derive_along_path(path, seed) ==
    LET r == DeriveLoop(new_master_key(seed), PathElements(path))
    IN IF r.exc # "" THEN r ELSE Ok(r.val[1])

\* stellar_base's Keypair.from_raw_seed: the keypair of a raw seed
Keypair_from_raw_seed(raw_seed) == [k |-> "Keypair", raw_seed |-> raw_seed]

account_keypair(seed, account_number) ==
    LET path == ACCOUNT_PATH_FORMAT[1] \o PercentD(account_number)
                    \o ACCOUNT_PATH_FORMAT[2]
        acc_seed == derive_along_path(path, seed)
    IN IF acc_seed.exc # "" THEN acc_seed
       ELSE Ok(Keypair_from_raw_seed(acc_seed.val))

(***************************************************************************)
(* The collaborators outside the repository.  What each answers for the    *)
(* phrase of a call is part of the call: env.digest, env.check and         *)
(* env.mn_decode.                                                          *)
(***************************************************************************)
\* bin_to_hexstr(hmac_sha_512(b'Seed version', x.encode('utf8'))): the
\* leading hex digits of the digest of x
SeedVersionHexDigest(env, x) == env.digest

\* Mnemonic.list_languages(): the word lists the mnemonic package ships
Mnemonic_list_languages ==
    {"chinese_simplified", "chinese_traditional", "english", "french",
     "italian", "japanese", "korean", "spanish"}

\* Mnemonic(language): opens the word list of the language
Mnemonic(language) ==
    IF language \in Mnemonic_list_languages THEN Ok(language)
    ELSE Raise("FileNotFoundError")

\* m.check(seed_phrase)
Mnemonic_check(env, seed_phrase) == env.check

\* old_electrum_mnemonic.mn_decode(words): returns, or raises on words it
\* cannot decode
mn_decode(env, words) ==
    IF env.mn_decode THEN Ok(<<>>) ELSE Raise("ValueError")

\* PBKDF2(passphrase, salt, iterations, macmodule, digestmodule).read(n)
PBKDF2_read(password, salt, iterations, n) ==
    [k |-> "PBKDF2", password |-> password, salt |-> salt,
     iterations |-> iterations, n |-> n]

(***************************************************************************)
(* electrum_mnemonic.py: the seed-phrase types                             *)
(***************************************************************************)
\* '01'
ELECTRUM_SEED_PREFIX == <<48, 49>>

\* '101'
ELECTRUM_SEED_PREFIX_2FA == <<49, 48, 49>>

\* the segwit prefix set to the two-factor one
ELECTRUM_SEED_PREFIX_SW_As2FA == <<49, 48, 49>>

\* '100'
ELECTRUM_SEED_PREFIX_SW == <<49, 48, 48>>

\* s.startswith(prefix)
startswith(s, prefix) ==
    Len(s) >= Len(prefix) /\ SubSeq(s, 1, Len(prefix)) = prefix

is_new_electrum_seed_phrase(env, x, prefix) ==
    startswith(SeedVersionHexDigest(env, x), prefix)

\* bfh is not a name of the module: calling it raises NameError
bfh(x) == Raise("NameError")

is_old_electrum_seed_phrase(env, seed) ==
    LET words == split(seed)
        uses_electrum_words == mn_decode(env, words).exc = ""
        h == bfh(seed)
        is_hex == IF h.exc # "" THEN FALSE
                  ELSE ByteLen(h.val) = 16 \/ ByteLen(h.val) = 32
    IN is_hex \/ (uses_electrum_words /\ (Len(words) = 12 \/ Len(words) = 24))

\* 'Old (pre 2.0) Electrum'
OLD_ELECTRUM ==
    <<79, 108, 100, 32, 40, 112, 114, 101, 32, 50, 46, 48, 41, 32,
      69, 108, 101, 99, 116, 114, 117, 109>>

\* 'Electrum standard'
ELECTRUM_STANDARD ==
    <<69, 108, 101, 99, 116, 114, 117, 109, 32,
      115, 116, 97, 110, 100, 97, 114, 100>>

\* 'Electrum segwit'
ELECTRUM_SEGWIT ==
    <<69, 108, 101, 99, 116, 114, 117, 109, 32, 115, 101, 103, 119, 105, 116>>

\* 'Electrum 2FA'
ELECTRUM_2FA == <<69, 108, 101, 99, 116, 114, 117, 109, 32, 50, 70, 65>>

\* 'UNKNOWN'
UNKNOWN == <<85, 78, 75, 78, 79, 87, 78>>

\* electrum_seed_type asking for the standard prefix before the legacy check
electrum_seed_type_StandardFirst(env, x) ==
    IF is_new_electrum_seed_phrase(env, x, ELECTRUM_SEED_PREFIX)
    THEN ELECTRUM_STANDARD
    ELSE IF is_old_electrum_seed_phrase(env, x) THEN OLD_ELECTRUM
    ELSE IF is_new_electrum_seed_phrase(env, x, ELECTRUM_SEED_PREFIX_SW)
         THEN ELECTRUM_SEGWIT
    ELSE IF is_new_electrum_seed_phrase(env, x, ELECTRUM_SEED_PREFIX_2FA)
         THEN ELECTRUM_2FA
    ELSE UNKNOWN

electrum_seed_type(env, x) ==
    IF is_old_electrum_seed_phrase(env, x) THEN OLD_ELECTRUM
    ELSE IF is_new_electrum_seed_phrase(env, x, ELECTRUM_SEED_PREFIX)
         THEN ELECTRUM_STANDARD
    ELSE IF is_new_electrum_seed_phrase(env, x, ELECTRUM_SEED_PREFIX_SW)
         THEN ELECTRUM_SEGWIT
    ELSE IF is_new_electrum_seed_phrase(env, x, ELECTRUM_SEED_PREFIX_2FA)
         THEN ELECTRUM_2FA
    ELSE UNKNOWN

(***************************************************************************)
(* seed_phrase_to_stellar_keys.py                                          *)
(***************************************************************************)
\* 'BIP-0039'
BIP_0039 == <<66, 73, 80, 45, 48, 48, 51, 57>>

\* ' and Electrum standard'
AND_ELECTRUM_STANDARD == <<32, 97, 110, 100, 32>> \o ELECTRUM_STANDARD

\* ' and Electrum segwit'
AND_ELECTRUM_SEGWIT == <<32, 97, 110, 100, 32>> \o ELECTRUM_SEGWIT

\* ' and Electrum 2FA'
AND_ELECTRUM_2FA == <<32, 97, 110, 100, 32>> \o ELECTRUM_2FA

\* 'mnemonic'
SALT_MNEMONIC == <<109, 110, 101, 109, 111, 110, 105, 99>>

\* 'electrum'
SALT_ELECTRUM == <<101, 108, 101, 99, 116, 114, 117, 109>>

\* 'non-standard'
SALT_NON_STANDARD == <<110, 111, 110, 45, 115, 116, 97, 110, 100, 97, 114, 100>>

PBKDF2_ROUNDS == 2048

\* the type of a phrase the BIP-0039 checker accepts: lines 71 to 77
BIP0039Type(env, seed_phrase) ==
    BIP_0039 \o
    (IF is_new_electrum_seed_phrase(env, seed_phrase, ELECTRUM_SEED_PREFIX)
     THEN AND_ELECTRUM_STANDARD
     ELSE IF is_new_electrum_seed_phrase(env, seed_phrase,
                                         ELECTRUM_SEED_PREFIX_SW)
     THEN AND_ELECTRUM_SEGWIT
     ELSE IF is_new_electrum_seed_phrase(env, seed_phrase,
                                         ELECTRUM_SEED_PREFIX_2FA)
     THEN AND_ELECTRUM_2FA
     ELSE <<>>)

\* TypeAndSalt with the test that picks the Electrum salt inverted
TypeAndSalt_SaltInverted(env, seed_phrase, passphrase) ==
    IF Mnemonic_check(env, seed_phrase)
    THEN [type |-> BIP0039Type(env, seed_phrase),
          salt |-> SALT_MNEMONIC \o passphrase]
    ELSE LET seed_phrase_type == electrum_seed_type(env, seed_phrase)
         IN [type |-> seed_phrase_type,
             salt |-> (IF seed_phrase_type = UNKNOWN THEN SALT_ELECTRUM
                       ELSE SALT_NON_STANDARD) \o passphrase]

\* the type and the salt to_binary_seed settles on for the normalized
\* phrase and passphrase: lines 70 to 84
TypeAndSalt(env, seed_phrase, passphrase) ==
    IF Mnemonic_check(env, seed_phrase)
    THEN [type |-> BIP0039Type(env, seed_phrase),
          salt |-> SALT_MNEMONIC \o passphrase]
    ELSE LET seed_phrase_type == electrum_seed_type(env, seed_phrase)
         IN [type |-> seed_phrase_type,
             salt |-> (IF seed_phrase_type # UNKNOWN THEN SALT_ELECTRUM
                       ELSE SALT_NON_STANDARD) \o passphrase]

to_binary_seed(env, seed_phrase, passphrase, language) ==
    LET sp == normalize_text(seed_phrase)
        pp == normalize_text(passphrase)
        m == Mnemonic(language)
    IN IF sp.exc # "" THEN sp
       ELSE IF pp.exc # "" THEN pp
       ELSE IF m.exc # "" THEN m
       ELSE LET ts == TypeAndSalt(env, sp.val, pp.val)
                binary_seed == PBKDF2_read(sp.val, ts.salt, PBKDF2_ROUNDS, 64)
            IN Ok(<<binary_seed, ts.type>>)

(***************************************************************************)
(* The calls                                                               *)
(***************************************************************************)
None == <<>>

RECURSIVE TextsOfLen(_)
TextsOfLen(n) ==
    IF n = 0 THEN {<<>>}
    ELSE {Append(t, c) : t \in TextsOfLen(n - 1), c \in Alphabet}

Texts == UNION {TextsOfLen(n) : n \in 0..MaxLen}

NormalizeCalls == {[op |-> "normalize_text", seed |-> t] : t \in Texts}

\* the largest |hi| of the integers handed to derive and account_keypair
MaxHi == 2

\* the longest derivation path, in segments after the root
MaxDepth == 2

\* integers on both sides of 0, 2^31 and 2^32
IntSamples == [hi : (-MaxHi)..MaxHi, lo : {0, 1, 44, 148, LimbMax}]

\* the seed of selftest()
SelftestSeed ==
    Bytes(<< 228, 165, 166, 50, 231, 9, 67, 174, 127, 7, 101, 157, 241, 51, 33, 96,
             147, 127, 173, 130, 88, 114, 22, 164, 198, 67, 21, 160, 251, 57, 73, 126,
             228, 160, 31, 118, 221, 171, 76, 186, 104, 20, 121, 119, 243, 161, 71, 182,
             173, 88, 76, 65, 128, 142, 130, 56, 160, 127, 108, 196, 181, 130, 241, 134 >>)

Seeds == {SelftestSeed, Bytes(<<1, 2, 3>>)}

\* keys and chain codes: the two halves of a master key, and byte strings
\* that are not 32 bytes long
KeySamples ==
    {new_master_key(SelftestSeed)[1], new_master_key(SelftestSeed)[2],
     Bytes(<<>>), Bytes([j \in 1..33 |-> 0])}

DeriveCalls ==
    {[op |-> "derive", parent_key |-> pk, parent_chain_code |-> cc, i |-> i] :
        pk \in KeySamples, cc \in KeySamples, i \in IntSamples}

\* the indices paths are written from: 0, 44, 2^31 - 1, 2^31, -1
PathInts ==
    {IntOf(0), IntOf(44), IntOf(LimbMax), [hi |-> 1, lo |-> 0], IntOf(-1)}

RECURSIVE IndexLists(_, _)
IndexLists(S, n) ==
    IF n = 0 THEN {<<>>}
    ELSE {Append(l, a) : l \in IndexLists(S, n - 1), a \in S}

\* the path m/a1'/.../ak' of the indices a1..ak
RECURSIVE PathText(_)
PathText(indices) ==
    IF indices = <<>> THEN <<109>>
    ELSE PathText(SubSeq(indices, 1, Len(indices) - 1))
             \o <<47>> \o PercentD(indices[Len(indices)]) \o <<39>>

WrittenPaths ==
    {PathText(l) : l \in UNION {IndexLists(PathInts, n) : n \in 0..MaxDepth}}

\* other path texts: '', "x/44'", "m//44'", "m/4x'", "m/44''", "m/ 44'",
\* "m/+44'", "m/4_4'", "m/44", "44'"
OtherPaths ==
    { <<>>,
      <<120, 47, 52, 52, 39>>,
      <<109, 47, 47, 52, 52, 39>>,
      <<109, 47, 52, 120, 39>>,
      <<109, 47, 52, 52, 39, 39>>,
      <<109, 47, 32, 52, 52, 39>>,
      <<109, 47, 43, 52, 52, 39>>,
      <<109, 47, 52, 95, 52, 39>>,
      <<109, 47, 52, 52>>,
      <<52, 52, 39>> }

PathCalls ==
    {[op |-> "derive_along_path", path |-> p, seed |-> s] :
        p \in WrittenPaths \cup OtherPaths, s \in Seeds}

AccountCalls ==
    {[op |-> "account_keypair", seed |-> s, account_number |-> n] :
        s \in Seeds, n \in IntSamples}

\* the leading hex digits of a digest the model keeps
DigestLen == 3

RECURSIVE HexStrings(_)
HexStrings(n) ==
    IF n = 0 THEN {<<>>}
    ELSE {Append(d, c) : d \in HexStrings(n - 1), c \in {48, 49, 102}}

\* n copies of the word w, separated by sep
Words(n, w, sep) == join(sep, [j \in 1..n |-> w])

\* seed phrases as typed: 12, 24 and 13 words (E WITH ACUTE, separated by
\* an ideographic space or a space), 32, 64 and 30 hex digits, one word,
\* nothing
Phrases ==
    { Words(12, <<201, 98>>, <<12288>>),
      Words(24, <<201, 98>>, <<32>>),
      Words(13, <<201, 98>>, <<32, 32>>),
      [j \in 1..32 |-> IF j % 2 = 1 THEN 48 ELSE 70],
      [j \in 1..64 |-> IF j % 2 = 1 THEN 48 ELSE 102],
      [j \in 1..30 |-> IF j % 2 = 1 THEN 48 ELSE 102],
      <<201, 98>>,
      <<>> }

Passphrases == {<<>>, <<32, 201, 168>>}

Languages == {"english", "klingon"}

\* the answers of the collaborators for a phrase as normalized.  The
\* BIP-0039 checker accepts only phrases of 12, 15, 18, 21 or 24 words.
Envs(words) ==
    {e \in [digest : HexStrings(DigestLen), check : BOOLEAN, mn_decode : BOOLEAN] :
        e.check => Len(words) \in {12, 15, 18, 21, 24}}

SeedCalls ==
    UNION {{[op |-> "to_binary_seed", seed_phrase |-> p, passphrase |-> pw,
             language |-> l, env |-> e] :
               pw \in Passphrases, l \in Languages,
               e \in Envs(split(normalize_text(p).val))} : p \in Phrases}

OldCalls ==
    UNION {{[op |-> "is_old_electrum_seed_phrase",
             seed |-> normalize_text(p).val, env |-> e] :
               e \in Envs(split(normalize_text(p).val))} : p \in Phrases}

Init ==
    /\ pc = "called"
    /\ ret = None
    /\ \/ call \in NormalizeCalls
       \/ call \in SeedCalls
       \/ call \in OldCalls
       \/ call \in DeriveCalls
       \/ call \in PathCalls
       \/ call \in AccountCalls

CallToBinarySeed ==
    /\ pc = "called"
    /\ call.op = "to_binary_seed"
    /\ ret' = to_binary_seed(call.env, call.seed_phrase, call.passphrase,
                             call.language)
    /\ pc' = "done"
    /\ UNCHANGED call

CallIsOldElectrumSeedPhrase ==
    /\ pc = "called"
    /\ call.op = "is_old_electrum_seed_phrase"
    /\ ret' = Ok(is_old_electrum_seed_phrase(call.env, call.seed))
    /\ pc' = "done"
    /\ UNCHANGED call

CallNormalizeText ==
    /\ pc = "called"
    /\ call.op = "normalize_text"
    /\ ret' = normalize_text(call.seed)
    /\ pc' = "done"
    /\ UNCHANGED call

CallDerive ==
    /\ pc = "called"
    /\ call.op = "derive"
    /\ ret' = derive(call.parent_key, call.parent_chain_code, call.i)
    /\ pc' = "done"
    /\ UNCHANGED call

CallDeriveAlongPath ==
    /\ pc = "called"
    /\ call.op = "derive_along_path"
    /\ ret' = derive_along_path(call.path, call.seed)
    /\ pc' = "done"
    /\ UNCHANGED call

CallAccountKeypair ==
    /\ pc = "called"
    /\ call.op = "account_keypair"
    /\ ret' = account_keypair(call.seed, call.account_number)
    /\ pc' = "done"
    /\ UNCHANGED call

Next ==
    \/ CallNormalizeText
    \/ CallToBinarySeed
    \/ CallIsOldElectrumSeedPhrase
    \/ CallDerive
    \/ CallDeriveAlongPath
    \/ CallAccountKeypair

Spec == Init /\ [][Next]_vars

(***************************************************************************)
(* Properties                                                              *)
(***************************************************************************)
\* the call of op has run to its end
Done(op) == pc = "done" /\ call.op = op

\* the call of op has returned a value
Returned(op) == Done(op) /\ ret.exc = ""

\* the type to_binary_seed returned, the salt it handed to PBKDF2, and the
\* normalized phrase (the PBKDF2 password)
ReturnedType == ret.val[2]

ReturnedSalt == ret.val[1].salt

NormalizedPhrase == ret.val[1].password

\* the BIP-0039 checker rejects the phrase and its digest starts with '01'
RejectedWithStandardDigest ==
    /\ Returned("to_binary_seed")
    /\ ~call.env.check
    /\ SubSeq(call.env.digest, 1, 2) = <<48, 49>>

\* C1 as stated: a phrase the BIP-0039 checker rejects and whose seed-version
\* digest starts with '01' is typed 'Electrum standard', whatever the legacy
\* decoder and the word count say.
C1_StandardWhateverLegacy ==
    RejectedWithStandardDigest => ReturnedType = ELECTRUM_STANDARD

\* C1 amended: such a phrase is typed 'Electrum standard' unless
\* is_old_electrum_seed_phrase accepts it, and then 'Old (pre 2.0) Electrum':
\* electrum_seed_type asks the legacy check first.
C1_StandardUnlessLegacy ==
    RejectedWithStandardDigest =>
        ReturnedType =
            IF is_old_electrum_seed_phrase(call.env, NormalizedPhrase)
            THEN OLD_ELECTRUM ELSE ELECTRUM_STANDARD

\* C1 witness: a rejected phrase of 13 words the legacy decoder decodes, with
\* a '01' digest, typed 'Electrum standard'
C1_Witness ==
    /\ RejectedWithStandardDigest
    /\ call.env.mn_decode
    /\ Len(split(NormalizedPhrase)) = 13
    /\ ReturnedType = ELECTRUM_STANDARD

\* the phrase is a hex string of n bytes
IsHexOfBytes(seed, n) ==
    /\ Len(seed) = 2 * n
    /\ \A j \in 1..Len(seed) : seed[j] \in (48..57) \cup (97..102) \cup (65..70)

\* C2 as stated: is_old_electrum_seed_phrase accepts a phrase if and only if
\* the legacy decoder succeeds on a phrase of 12 or 24 words, or the phrase
\* is the hex of exactly 16 or 32 bytes.
C2_LegacyOrHex ==
    Returned("is_old_electrum_seed_phrase") =>
        (ret.val <=>
            \/ call.env.mn_decode /\ Len(split(call.seed)) \in {12, 24}
            \/ IsHexOfBytes(call.seed, 16)
            \/ IsHexOfBytes(call.seed, 32))

\* two accepted account numbers m and n of one seed get the same key
SameAccountKey(seed, m, n) ==
    /\ account_keypair(seed, m).exc = ""
    /\ account_keypair(seed, m) = account_keypair(seed, n)

\* C3 as stated: account_keypair fails for every account number outside
\* 0 <= account < 2^31, and no two distinct accepted account numbers are
\* derived with the same hardened child index (they get different keys).
C3_AccountOutOfRangeFails ==
    Done("account_keypair") =>
        /\ call.account_number.hi # 0 => ret.exc # ""
        /\ ret.exc = "" =>
               \A m \in IntSamples :
                   m # call.account_number =>
                       ~SameAccountKey(call.seed, m, call.account_number)

\* C4 as stated: when the legacy decoder raises on the words of the phrase,
\* or the language is not one the BIP-0039 checker has, to_binary_seed still
\* returns a (binary seed, type) pair.
C4_CollaboratorFailureContained ==
    (/\ Done("to_binary_seed")
     /\ \/ ~call.env.mn_decode
        \/ call.language \notin Mnemonic_list_languages)
        => ret.exc = ""

BIP0039Types ==
    {BIP_0039, BIP_0039 \o AND_ELECTRUM_STANDARD,
     BIP_0039 \o AND_ELECTRUM_SEGWIT, BIP_0039 \o AND_ELECTRUM_2FA}

ElectrumTypes ==
    {OLD_ELECTRUM, ELECTRUM_STANDARD, ELECTRUM_SEGWIT, ELECTRUM_2FA}

\* C5: the type to_binary_seed returns is one of the nine tags, and the
\* PBKDF2 salt is 'mnemonic' + passphrase for the four BIP-0039 types,
\* 'electrum' + passphrase for the four Electrum types and
\* 'non-standard' + passphrase for UNKNOWN, the passphrase as normalized.
C5_SaltByType ==
    Returned("to_binary_seed") =>
        LET pp == normalize_text(call.passphrase).val
        IN /\ ReturnedType \in BIP0039Types \cup ElectrumTypes \cup {UNKNOWN}
           /\ ReturnedType \in BIP0039Types =>
                  ReturnedSalt = <<109, 110, 101, 109, 111, 110, 105, 99>> \o pp
           /\ ReturnedType \in ElectrumTypes =>
                  ReturnedSalt = <<101, 108, 101, 99, 116, 114, 117, 109>> \o pp
           /\ ReturnedType = UNKNOWN =>
                  ReturnedSalt =
                      <<110, 111, 110, 45, 115, 116, 97, 110, 100, 97, 114, 100>>
                          \o pp

\* C5 witness: a legacy Electrum phrase with the passphrase ' E-acute diaeresis',
\* salted 'electrume'
C5_Witness ==
    /\ Returned("to_binary_seed")
    /\ ReturnedType = OLD_ELECTRUM
    /\ call.passphrase = <<32, 201, 168>>
    /\ ReturnedSalt = <<101, 108, 101, 99, 116, 114, 117, 109, 101>>

\* C6: a phrase the BIP-0039 checker accepts is typed 'BIP-0039 and Electrum
\* standard' if its digest starts with '01', else 'BIP-0039 and Electrum
\* segwit' if with '100', else 'BIP-0039 and Electrum 2FA' if with '101',
\* else 'BIP-0039', whatever the legacy check says.
C6_BIP0039TypeByPrefix ==
    (Returned("to_binary_seed") /\ call.env.check) =>
        LET d == call.env.digest
        IN ReturnedType =
               IF SubSeq(d, 1, 2) = <<48, 49>>
               THEN BIP_0039 \o AND_ELECTRUM_STANDARD
               ELSE IF SubSeq(d, 1, 3) = <<49, 48, 48>>
               THEN BIP_0039 \o AND_ELECTRUM_SEGWIT
               ELSE IF SubSeq(d, 1, 3) = <<49, 48, 49>>
               THEN BIP_0039 \o AND_ELECTRUM_2FA
               ELSE BIP_0039

\* C6 witness: an accepted phrase of 12 words that the legacy check accepts
\* too, with a '100' digest, typed 'BIP-0039 and Electrum segwit'
C6_Witness ==
    /\ Returned("to_binary_seed")
    /\ call.env.check
    /\ is_old_electrum_seed_phrase(call.env, NormalizedPhrase)
    /\ SubSeq(call.env.digest, 1, 3) = <<49, 48, 48>>
    /\ ReturnedType = BIP_0039 \o AND_ELECTRUM_SEGWIT

\* C7: derive raises for every index i < 2^31, the negative ones included,
\* and then returns no key and no chain code.
C7_NonHardenedFails ==
    (Done("derive") /\ call.i.hi <= 0) =>
        ret.exc = "AssertionError" /\ ret.val = <<>>

\* C7 witness: a key and a chain code of 32 bytes each, index 44: raised
C7_Witness ==
    /\ Done("derive")
    /\ ByteLen(call.parent_key) = 32
    /\ ByteLen(call.parent_chain_code) = 32
    /\ call.i = [hi |-> 0, lo |-> 44]
    /\ ret.exc = "AssertionError"

\* a + 2^31
PlusHardened(a) == [hi |-> a.hi + 1, lo |-> a.lo]

\* derive applied along the indices, in order, from the extended key ext
RECURSIVE FoldDerive(_, _)
FoldDerive(ext, indices) ==
    IF indices = <<>> THEN ext
    ELSE FoldDerive(derive(ext[1], ext[2], Head(indices)).val, Tail(indices))

\* the index lists a1..ak, k <= MaxDepth, with every aj in 0 .. 2^31 - 1
InRangeIndexLists ==
    UNION {IndexLists({a \in PathInts : a.hi = 0}, n) : n \in 0..MaxDepth}

C9_NormalizeIdempotent ==
    Done("normalize_text") =>
        ret.exc = "" /\ normalize_text(ret.val) = ret

\* C9 witness: a space between two CJK characters was removed from a text
\* that also lost an accent
C9_Witness ==
    /\ Returned("normalize_text")
    /\ call.seed = <<201, 20013, 32, 20013>>
    /\ ret.val = <<101, 20013, 20013>>

\* C10: the output of normalize_text has no two adjacent whitespace
\* characters, no leading or trailing whitespace, and no whitespace
\* character with a CJK character on both sides.
C10_NormalizedWhitespace ==
    Returned("normalize_text") =>
        LET o == ret.val
        IN \A j \in 1..Len(o) :
               o[j] \in UnicodeWhitespace =>
                   /\ j # 1 /\ j # Len(o)
                   /\ o[j + 1] \notin UnicodeWhitespace
                   /\ ~(is_CJK(o[j - 1]) /\ is_CJK(o[j + 1]))

\* C10 witness: whitespace around and inside the text, one space kept
\* between a CJK character and a letter
C10_Witness ==
    /\ Returned("normalize_text")
    /\ call.seed = <<32, 20013, 5760, 201>>
    /\ ret.val = <<20013, 32, 101>>

\* a plain decimal number: one or more ASCII digits and nothing else
IsPlainDecimal(s) == s # <<>> /\ \A k \in 1..Len(s) : s[k] \in 48..57

\* a segment after the root that is empty, not a plain decimal number, or
\* ends in more than one apostrophe
MalformedSegment(p) ==
    \/ ~IsPlainDecimal(rstrip(p, 39))
    \/ Len(p) - Len(rstrip(p, 39)) > 1

\* a path whose first segment is not 'm' or with a malformed later segment
MalformedPath(path) ==
    LET pieces == SplitOn(path, 47)
    IN \/ pieces[1] # <<109>>
       \/ \E j \in 2..Len(pieces) : MalformedSegment(pieces[j])

\* C11 as stated: derive_along_path raises on every malformed path (a first
\* segment that is not 'm', a segment that is empty or not a plain decimal
\* number, a segment with more than one trailing apostrophe) and returns no
\* key for it.
C11_MalformedPathFails ==
    (Done("derive_along_path") /\ MalformedPath(call.path)) => ret.exc # ""

\* C12: in the last step of normalize_text the lookups seed[i-1] and
\* seed[i+1] are evaluated only at positions 0 < i < len(seed) - 1, each
\* reads a character of the string (no negative index, none past the end),
\* the call raises no IndexError, and only a whitespace with a CJK character
\* of the string on each side is removed.
C12_NeighbourLookupsInside ==
    Done("normalize_text") =>
        LET s == CJKStepInput(call.seed)
        IN /\ \A l \in NeighbourLookups(s) :
                  /\ 0 < l.at /\ l.at < Len(s) - 1
                  /\ 0 <= l.index /\ l.index < Len(s)
           /\ ret.exc = ""
           /\ \A i \in 0..(Len(s) - 1) :
                  Dropped(s, i) => 0 < i /\ i < Len(s) - 1

\* C12 witness: ' CJK space CJK': the leading space is gone before the last
\* step, which looks up both neighbours of the inner space and removes it
C12_Witness ==
    /\ Returned("normalize_text")
    /\ call.seed = <<32, 20013, 32, 20013>>
    /\ NeighbourLookups(CJKStepInput(call.seed)) =
           {[at |-> 1, index |-> 0], [at |-> 1, index |-> 2]}
    /\ ret.val = <<20013, 20013>>

=============================================================================
